---- MODULE Spec2Model ----
(***************************************************************************)
(* Model of src/app.py: a Flask gateway in front of a partitioned table    *)
(* store.  Every HTTP request is one atomic step: the before_request hook  *)
(* check_api_key, then the routed handler with all the store calls it      *)
(* makes.  The state keeps the module-level configuration (API_KEY,        *)
(* table_client), the contents of the remote table, the id generator, and  *)
(* the last request with its response and the store calls it issued.       *)
(*                                                                         *)
(* JSON values are written as strings.  Null stands for Python's None.     *)
(* The members of NumberVals stand for JSON numbers, every other value is  *)
(* a JSON string.                                                          *)
(***************************************************************************)
EXTENDS Integers, Sequences, FiniteSets, TLC

VARIABLES API_KEY, table_client, storageUsable, table, uuidNext, req, resp, calls

vars == <<API_KEY, table_client, storageUsable, table, uuidNext, req, resp, calls>>

(***************************************************************************)
(* Bounds                                                                  *)
(***************************************************************************)
\* Number of ids the id generator hands out in one run.
MaxIds == 2
\* Longest table the list specification starts from.
MaxList == 3

(***************************************************************************)
(* Values                                                                  *)
(***************************************************************************)
Null == "<None>"

\* JSON numbers are written with a leading #.
NumberVals == {"#0", "#7"}

\* Python truthiness: None, "" and 0 are false.
Truthy(v) == v \notin {Null, "", "#0"}

\* Strings in lexicographic order, numbers in numeric order.
StringOrder == <<"", "2023-01-01", "2024-01-01", "2024-06-01">>
NumberOrder == <<"#0", "#7">>

IsNumber(v) == v \in NumberVals

\* Position of a value in the order of its own type.
RankOf ==
    [v \in {StringOrder[i] : i \in 1..Len(StringOrder)} |->
        CHOOSE i \in 1..Len(StringOrder) : StringOrder[i] = v]
    @@ [v \in NumberVals |-> CHOOSE i \in 1..Len(NumberOrder) : NumberOrder[i] = v]

Rank(v) == RankOf[v]

\* str(uuid.uuid4()): the n-th value of a generator that never repeats.
Uuid(n) == "uuid-" \o ToString(n)

EmptyObject == [f \in {} |-> Null]

\* dict.get(name, default)
Get(obj, name, default) == IF name \in DOMAIN obj THEN obj[name] ELSE default

(***************************************************************************)
(* Requests                                                                *)
(***************************************************************************)
\* x-api-key header: missing, the configured secret, another value.
HeaderKeys == {Null, "secret", "wrong"}
\* API_KEY: unset or set.
ConfiguredKeys == {Null, "secret"}

DeviceIdFields == {EmptyObject, [deviceId |-> "d1"]}
ReservedFields == {EmptyObject, [PartitionKey |-> "p9"], [RowKey |-> "r9"]}

\* Request bodies: JSON objects, JSON that is no object, and bytes that are no JSON.
ObjectBodies == {[kind |-> "object", obj |-> d @@ r] : d \in DeviceIdFields, r \in ReservedFields}
NonObjectBody == [kind |-> "array", obj |-> EmptyObject]
InvalidBody == [kind |-> "invalid", obj |-> EmptyObject]
NoBody == [kind |-> "none", obj |-> EmptyObject]
Bodies == ObjectBodies \cup {NonObjectBody, InvalidBody}

RowKeyParams == {Uuid(1), "r9"}
DeviceIdArgs == {Null, "d1"}
TopArgs == {Null, "", "abc", "-1", "0", "2"}
MainTopArgs == {Null, "2"}

Request(method, path, key, row_key, body, device_id, top) ==
    [method |-> method, path |-> path, key |-> key, row_key |-> row_key,
     body |-> body, device_id |-> device_id, top |-> top]

NoRequest == Request(Null, Null, Null, Null, NoBody, Null, Null)

(***************************************************************************)
(* Responses and store calls                                               *)
(***************************************************************************)
NoChecks == [table_client |-> FALSE, api_key_set |-> FALSE]

Response(status, error, result, entities, ok, details) ==
    [status |-> status, error |-> error, result |-> result,
     entities |-> entities, ok |-> ok, details |-> details]

ErrorResponse(status, error) == Response(status, error, Null, <<>>, FALSE, NoChecks)
NoResponse == Response(0, Null, Null, <<>>, FALSE, NoChecks)

StoreCall(op, entity, filter) == [op |-> op, entity |-> entity, filter |-> filter]

\* What a handler leaves behind: its response, the store calls it issued, the
\* table after them and the id generator's position.
Outcome(r, c, t, u) == [resp |-> r, calls |-> c, table |-> t, uuidNext |-> u]

(***************************************************************************)
(* The remote table (azure.data.tables TableClient), rows in the order     *)
(* the store returns them.                                                 *)
(***************************************************************************)
HasRow(tbl, pk, rk) ==
    \E i \in 1..Len(tbl) : tbl[i].PartitionKey = pk /\ tbl[i].RowKey = rk

\* create_entity: inserts a new row; the store refuses a row whose keys exist.
StoreCreate(tbl, entity) == Append(tbl, entity)

\* update_entity(mode="MERGE"): the fields sent overwrite, the others survive.
StoreMerge(tbl, entity) ==
    [i \in 1..Len(tbl) |->
        IF tbl[i].PartitionKey = entity.PartitionKey /\ tbl[i].RowKey = entity.RowKey
        THEN entity @@ tbl[i]
        ELSE tbl[i]]

\* delete_entity: removes the row if it is there.
StoreDelete(tbl, pk, rk) ==
    LET Other(e) == ~(e.PartitionKey = pk /\ e.RowKey = rk)
    IN SelectSeq(tbl, Other)

\* query_entities("PartitionKey eq '<device_id>'")
StoreQuery(tbl, device_id) ==
    LET InPartition(e) == e.PartitionKey = device_id
    IN SelectSeq(tbl, InPartition)

(***************************************************************************)
(* Module-level initialisation                                             *)
(***************************************************************************)
\* table_client after import: a client when STORAGE_CONN_STR is set and
\* TableServiceClient.from_connection_string succeeds, None otherwise.
InitClient(usable) == IF usable THEN "client" ELSE Null

(***************************************************************************)
(* before_request hook                                                     *)
(***************************************************************************)
Unauthorized == ErrorResponse(401, "Unauthorized")

\* Variants of the hook: one that compares the header only, one that also lets
\* the root path through.
check_api_key_open(path, key) ==
    IF path = "/healthz"
    THEN NoResponse
    ELSE IF key # API_KEY THEN Unauthorized ELSE NoResponse

check_api_key_root(path, key) ==
    IF path \in {"/", "/healthz"}
    THEN NoResponse
    ELSE IF ~Truthy(API_KEY) \/ key # API_KEY THEN Unauthorized ELSE NoResponse

\* NoResponse is the hook's "return None": the request goes on to its handler.
check_api_key(path, key) ==
    IF path = "/healthz"
    THEN NoResponse
    ELSE IF ~Truthy(API_KEY) \/ key # API_KEY
         THEN Unauthorized
         ELSE NoResponse

(***************************************************************************)
(* Handlers                                                                *)
(***************************************************************************)
NotConfigured == ErrorResponse(500, "Storage not configured")

healthz ==
    LET details == [table_client |-> table_client # Null, api_key_set |-> Truthy(API_KEY)]
        all == details.table_client /\ details.api_key_set
    IN Outcome(Response(IF all THEN 200 ELSE 500, Null, Null, <<>>, all, details),
               <<>>, table, uuidNext)

\* Variant of create_entity without the guard on table_client: the call on None
\* raises and is reported as a failed create.
create_entity_unguarded(body, fails) ==
    IF body.kind # "object"
    THEN Outcome(ErrorResponse(500, "Failed to create entity"), <<>>, table, uuidNext)
    ELSE Outcome(ErrorResponse(500, "Failed to create entity"), <<>>, table, uuidNext + 1)

\* fails: the store call raises (service or transport error).
create_entity(body, fails) ==
    IF table_client = Null
    THEN Outcome(NotConfigured, <<>>, table, uuidNext)
    ELSE IF body.kind # "object"
    THEN \* get_json raises on bytes that are no JSON, data.get on a non-object
         Outcome(ErrorResponse(500, "Failed to create entity"), <<>>, table, uuidNext)
    ELSE LET data == body.obj
             partition == Get(data, "deviceId", "unknown")
             entity == data @@ [PartitionKey |-> partition, RowKey |-> Uuid(uuidNext)]
             call == StoreCall("create_entity", entity, Null)
         IN IF fails \/ HasRow(table, entity.PartitionKey, entity.RowKey)
            THEN Outcome(ErrorResponse(500, "Failed to create entity"),
                         <<call>>, table, uuidNext + 1)
            ELSE Outcome(Response(201, Null, "created", <<entity>>, FALSE, NoChecks),
                         <<call>>, StoreCreate(table, entity), uuidNext + 1)

update_entity(row_key, body, fails) ==
    IF table_client = Null
    THEN Outcome(NotConfigured, <<>>, table, uuidNext)
    ELSE IF body.kind # "object"
    THEN Outcome(ErrorResponse(500, "Failed to update entity"), <<>>, table, uuidNext)
    ELSE LET data == body.obj
             partition_key == Get(data, "deviceId", "unknown")
             entity == data @@ [PartitionKey |-> partition_key, RowKey |-> row_key]
             call == StoreCall("update_entity", entity, Null)
         IN IF fails \/ ~HasRow(table, entity.PartitionKey, entity.RowKey)
            THEN Outcome(ErrorResponse(500, "Failed to update entity"),
                         <<call>>, table, uuidNext)
            ELSE Outcome(Response(200, Null, "updated", <<entity>>, FALSE, NoChecks),
                         <<call>>, StoreMerge(table, entity), uuidNext)

delete_entity(row_key, device_id, fails) ==
    IF table_client = Null
    THEN Outcome(NotConfigured, <<>>, table, uuidNext)
    ELSE LET partition_key == IF device_id = Null THEN "unknown" ELSE device_id
             call == StoreCall("delete_entity",
                               [PartitionKey |-> partition_key, RowKey |-> row_key], Null)
         IN IF fails
            THEN Outcome(ErrorResponse(500, "Failed to delete entity"),
                         <<call>>, table, uuidNext)
            ELSE Outcome(Response(200, Null, "deleted", <<>>, FALSE, NoChecks),
                         <<call>>, StoreDelete(table, partition_key, row_key), uuidNext)

(***************************************************************************)
(* Listing: recency ordering and trimming                                  *)
(***************************************************************************)
Candidates == <<"timestamp", "createdAt", "TimeGenerated", "time">>

\* The first candidate name that is a field of at least one entity, else None.
ts_field(entities) ==
    LET Present(c) == \E i \in 1..Len(entities) : c \in DOMAIN entities[i]
        found == {k \in 1..Len(Candidates) : Present(Candidates[k])}
    IN IF found = {}
       THEN Null
       ELSE Candidates[CHOOSE k \in found : \A j \in found : k <= j]

\* lambda x: x.get(ts_field) or ""
SortKey(entity, field) ==
    LET v == Get(entity, field, Null)
    IN IF Truthy(v) THEN v ELSE ""

\* Python orders str with str and number with number; str against number
\* raises TypeError.
Comparable(entities, field) ==
    Cardinality({IsNumber(SortKey(entities[i], field)) : i \in 1..Len(entities)}) <= 1

RECURSIVE FromRank(_, _, _)
\* The entities whose key has rank r, then those of rank r - 1, and so on, each
\* group in the order it had.
FromRank(entities, field, r) ==
    IF r = 0
    THEN <<>>
    ELSE LET HasRank(e) == Rank(SortKey(e, field)) = r
         IN SelectSeq(entities, HasRank) \o FromRank(entities, field, r - 1)

RECURSIVE UpToRank(_, _, _)
UpToRank(entities, field, r) ==
    IF r = 0
    THEN <<>>
    ELSE LET HasRank(e) == Rank(SortKey(e, field)) = r
         IN UpToRank(entities, field, r - 1) \o SelectSeq(entities, HasRank)

\* Variant of the sort without reverse=True.
SortAscending(entities, field) == UpToRank(entities, field, Len(StringOrder))

\* list.sort(key=..., reverse=True): descending by key, and entities with equal
\* keys keep the order they had.
SortDescending(entities, field) == FromRank(entities, field, Len(StringOrder))

\* int(top) for the literals of TopArgs; any other text raises ValueError.
IntLiterals == ("-1" :> (0 - 1)) @@ ("0" :> 0) @@ ("2" :> 2)

ParsesAsInt(text) == text \in DOMAIN IntLiterals

\* entities[:n]
Slice(entities, n) ==
    IF n >= 0
    THEN SubSeq(entities, 1, IF n < Len(entities) THEN n ELSE Len(entities))
    ELSE SubSeq(entities, 1, IF Len(entities) + n > 0 THEN Len(entities) + n ELSE 0)

\* if top: try int(top) and trim; except ValueError: pass
Trim(entities, top) ==
    IF Truthy(top) /\ ParsesAsInt(top)
    THEN Slice(entities, IntLiterals[top])
    ELSE entities

read_entities(device_id, top, fails) ==
    IF table_client = Null
    THEN Outcome(NotConfigured, <<>>, table, uuidNext)
    ELSE LET call == IF Truthy(device_id)
                     THEN StoreCall("query_entities", EmptyObject, device_id)
                     ELSE StoreCall("list_entities", EmptyObject, Null)
             entities == IF Truthy(device_id) THEN StoreQuery(table, device_id) ELSE table
             field == ts_field(entities)
         IN IF fails
            THEN Outcome(ErrorResponse(500, "Storage error"), <<call>>, table, uuidNext)
            ELSE IF field # Null /\ ~Comparable(entities, field)
            THEN Outcome(ErrorResponse(500, "Failed to query data"), <<call>>, table, uuidNext)
            ELSE LET ordered == IF field # Null THEN SortDescending(entities, field)
                                ELSE entities
                 IN Outcome(Response(200, Null, Null, Trim(ordered, top), FALSE, NoChecks),
                            <<call>>, table, uuidNext)

(***************************************************************************)
(* Requests as steps                                                       *)
(***************************************************************************)
\* One request: the before_request hook, then the handler's outcome.
Serve(r, out) ==
    LET gate == check_api_key(r.path, r.key)
    IN /\ req' = r
       /\ IF gate # NoResponse
          THEN /\ resp' = gate
               /\ calls' = <<>>
               /\ UNCHANGED <<table, uuidNext>>
          ELSE /\ resp' = out.resp
               /\ calls' = out.calls
               /\ table' = out.table
               /\ uuidNext' = out.uuidNext
       /\ UNCHANGED <<API_KEY, table_client, storageUsable>>

\* Variant of the health check that acquires the client again when it is None.
GetHealthzRetrying(key) ==
    /\ req' = Request("GET", "/healthz", key, Null, NoBody, Null, Null)
    /\ table_client' = IF table_client = Null THEN InitClient(storageUsable) ELSE table_client
    /\ resp' = Response(IF table_client' # Null /\ Truthy(API_KEY) THEN 200 ELSE 500,
                        Null, Null, <<>>, table_client' # Null /\ Truthy(API_KEY),
                        [table_client |-> table_client' # Null, api_key_set |-> Truthy(API_KEY)])
    /\ calls' = <<>>
    /\ UNCHANGED <<API_KEY, storageUsable, table, uuidNext>>

GetHealthz(key) ==
    Serve(Request("GET", "/healthz", key, Null, NoBody, Null, Null), healthz)

\* No route is registered for "/": past the hook the router answers 404.
GetRoot(key) ==
    Serve(Request("GET", "/", key, Null, NoBody, Null, Null),
          Outcome(ErrorResponse(404, "Not Found"), <<>>, table, uuidNext))

PostTelemetry(key, body, fails) ==
    /\ create_entity(body, fails).uuidNext <= MaxIds + 1
    /\ Serve(Request("POST", "/telemetry", key, Null, body, Null, Null),
             create_entity(body, fails))

GetTelemetry(key, device_id, top, fails) ==
    Serve(Request("GET", "/telemetry", key, Null, NoBody, device_id, top),
          read_entities(device_id, top, fails))

PutTelemetry(key, row_key, body, fails) ==
    Serve(Request("PUT", "/telemetry/" \o row_key, key, row_key, body, Null, Null),
          update_entity(row_key, body, fails))

DeleteTelemetry(key, row_key, device_id, fails) ==
    Serve(Request("DELETE", "/telemetry/" \o row_key, key, row_key, NoBody, device_id, Null),
          delete_entity(row_key, device_id, fails))

\* The connection setting or the store becomes usable, or stops being so,
\* while the process runs.
EnvChange ==
    /\ storageUsable' = ~storageUsable
    /\ UNCHANGED <<API_KEY, table_client, table, uuidNext, req, resp, calls>>

Init ==
    /\ API_KEY \in ConfiguredKeys
    /\ storageUsable \in BOOLEAN
    /\ table_client = InitClient(storageUsable)
    /\ table = <<>>
    /\ uuidNext = 1
    /\ req = NoRequest
    /\ resp = NoResponse
    /\ calls = <<>>

Next ==
    \/ \E key \in HeaderKeys : GetHealthz(key)
    \/ \E key \in HeaderKeys : GetRoot(key)
    \/ \E key \in HeaderKeys, body \in Bodies, fails \in BOOLEAN :
          PostTelemetry(key, body, fails)
    \/ \E key \in HeaderKeys, device_id \in DeviceIdArgs, top \in MainTopArgs,
          fails \in BOOLEAN : GetTelemetry(key, device_id, top, fails)
    \/ \E key \in HeaderKeys, row_key \in RowKeyParams, body \in Bodies,
          fails \in BOOLEAN : PutTelemetry(key, row_key, body, fails)
    \/ \E key \in HeaderKeys, row_key \in RowKeyParams, device_id \in DeviceIdArgs,
          fails \in BOOLEAN : DeleteTelemetry(key, row_key, device_id, fails)
    \/ EnvChange

Spec == Init /\ [][Next]_vars

(***************************************************************************)
(* Listing over tables of up to MaxList rows                               *)
(***************************************************************************)
TsVals == {"", "2023-01-01", "2024-06-01", "#7"}

\* A row's timestamp-like fields: none, or one candidate with one value.
TsNames == {"timestamp", "createdAt", "time"}
TsFieldSets == {EmptyObject} \cup {c :> v : c \in TsNames, v \in TsVals}

\* Rows as POST /telemetry stores them for device d1, the i-th with the i-th id.
ListTables ==
    UNION {[1..n -> TsFieldSets] : n \in 0..MaxList}

StoredRow(i, fields) ==
    fields @@ [PartitionKey |-> "d1", RowKey |-> Uuid(i), deviceId |-> "d1"]

InitList ==
    /\ API_KEY = "secret"
    /\ storageUsable = TRUE
    /\ table_client = InitClient(storageUsable)
    /\ \E t \in ListTables :
          /\ table = [i \in 1..Len(t) |-> StoredRow(i, t[i])]
          /\ uuidNext = Len(t) + 1
    /\ req = NoRequest
    /\ resp = NoResponse
    /\ calls = <<>>

NextList ==
    \E top \in TopArgs : GetTelemetry("secret", "d1", top, FALSE)

SpecList == InitList /\ [][NextList]_vars

(***************************************************************************)
(* Properties                                                              *)
(***************************************************************************)
IsDataRequest(r) ==
    r.method \in {"GET", "POST", "PUT", "DELETE"} /\ r.path \notin {"/", "/healthz"}

Authenticated(r) == Truthy(API_KEY) /\ r.key = API_KEY

\* C1: a request to a path other than / and /healthz, made while API_KEY is unset
\* or with a missing or different x-api-key header, is answered 401 and issues
\* no store call.
C1_UnauthorizedNeverReachesStore ==
    (IsDataRequest(req) /\ (~Truthy(API_KEY) \/ req.key # API_KEY))
        => (resp.status = 401 /\ resp.error = "Unauthorized" /\ calls = <<>>)

C1_Witness ==
    /\ req.method = "POST" /\ req.key = Null /\ API_KEY = Null
    /\ req.body.kind = "object" /\ table_client # Null
    /\ resp.status = 401

\* C2: while table_client is None, every authenticated data operation answers
\* 500 "Storage not configured" without a store call, and /healthz answers 500
\* with ok false.
C2_NotConfigured ==
    table_client = Null =>
        /\ (IsDataRequest(req) /\ Authenticated(req))
              => (resp = NotConfigured /\ calls = <<>>)
        /\ req.path = "/healthz"
              => (resp.status = 500 /\ ~resp.ok /\ ~resp.details.table_client)

C2_Witness ==
    /\ table_client = Null /\ Authenticated(req)
    /\ req.method = "POST" /\ req.body.kind = "object"
    /\ resp.status = 500

\* C3: the record a create sends to the store has PartitionKey equal to the
\* body's deviceId, or "unknown", and RowKey equal to the id just generated,
\* whatever the body holds under PartitionKey and RowKey.
C3_CreateKeysTakePrecedence ==
    (req.method = "POST" /\ calls # <<>>) =>
        /\ calls[1].entity.PartitionKey = Get(req.body.obj, "deviceId", "unknown")
        /\ calls[1].entity.RowKey = Uuid(uuidNext - 1)

\* C4: the record an update sends to the store has RowKey equal to the path
\* parameter and PartitionKey equal to the body's deviceId, or "unknown".
C4_UpdateKeepsPathIdentity ==
    (req.method = "PUT" /\ calls # <<>>) =>
        /\ calls[1].entity.RowKey = req.row_key
        /\ calls[1].entity.PartitionKey = Get(req.body.obj, "deviceId", "unknown")

\* C5: no two rows stored by creates carry the same RowKey.
C5_RowKeysNeverReused ==
    \A i, j \in 1..Len(table) : i # j => table[i].RowKey # table[j].RowKey

\* C8: a create or update whose body is no JSON object builds the record of the
\* empty object, partition key "unknown" and the two key fields only, and sends
\* it to the store.
C8_NonObjectBodyAsEmptyObject ==
    (req.method \in {"POST", "PUT"} /\ req.body.kind \in {"array", "invalid"}
     /\ Authenticated(req) /\ table_client # Null) =>
        /\ calls # <<>>
        /\ calls[1].entity.PartitionKey = "unknown"
        /\ DOMAIN calls[1].entity = {"PartitionKey", "RowKey"}

Demand ==
    /\ storageUsable' = storageUsable
    /\ <<req, resp, calls>>' # <<req, resp, calls>>
    /\ req'.path = "/healthz" \/ (IsDataRequest(req') /\ Authenticated(req'))

Listed == req.method = "GET" /\ req.path = "/telemetry" /\ resp.status = 200

\* What the store returned to the last listing (a listing changes no row).
Retrieved == IF Truthy(req.device_id) THEN StoreQuery(table, req.device_id) ELSE table

Trimmed == Truthy(req.top) /\ ParsesAsInt(req.top)

AppearsIn(name, entities) == \E i \in 1..Len(entities) : name \in DOMAIN entities[i]

\* The value a record is ordered by: the field's, or the empty string.
ValueOrEmpty(entity, name) == IF name \in DOMAIN entity THEN entity[name] ELSE ""

IsPermutation(result, entities) ==
    /\ Len(result) = Len(entities)
    /\ \E p \in Permutations(1..Len(entities)) :
          \A i \in 1..Len(entities) : result[i] = entities[p[i]]

IsDescendingBy(result, name) ==
    \A i, j \in 1..Len(result) :
        i < j => Rank(ValueOrEmpty(result[i], name)) >= Rank(ValueOrEmpty(result[j], name))

\* Every record lacking the field comes after every record having it.
LackingAfterHaving(result, name) ==
    \A i, j \in 1..Len(result) :
        (name \notin DOMAIN result[i] /\ name \in DOMAIN result[j]) => j < i

\* Every record lacking the field comes after every record whose value for it
\* is not empty.
LackingAfterNonEmpty(result, name) ==
    \A i, j \in 1..Len(result) :
        (name \notin DOMAIN result[i] /\ name \in DOMAIN result[j] /\ result[j][name] # "")
            => j < i

IsFirstPresent(k, entities) ==
    /\ AppearsIn(Candidates[k], entities)
    /\ \A j \in 1..(k - 1) : ~AppearsIn(Candidates[j], entities)

FirstN(entities, n) ==
    SubSeq(entities, 1, IF n < 0 THEN 0 ELSE IF n < Len(entities) THEN n ELSE Len(entities))

\* The listing before trimming.
Untrimmed ==
    IF ts_field(Retrieved) # Null
    THEN SortDescending(Retrieved, ts_field(Retrieved))
    ELSE Retrieved

====
